---- MODULE Spec2Model ----
(***************************************************************************)
(* Model of the merge / normalize / scoring pipeline of                    *)
(* src/src/merge_normalize.py: extract_all_company_info,                   *)
(* normalize_company_name, calculate_company_score, merge_company_info,    *)
(* create_master_dataset and enhance_and_score_companies.                  *)
(*                                                                         *)
(* Representation.  A Python str is a sequence of one-character strings,   *)
(* so that strip / upper / re.sub act on characters.  A Python dict is a   *)
(* function whose DOMAIN is the set of keys present (the empty dict is     *)
(* <<>>); the ordered dict master_companies is a sequence of entries       *)
(* [k |-> key, v |-> fragment] in insertion order.  A cell of a raw row    *)
(* and a value that may be an int or a str are tagged records of one       *)
(* shape, so that values of different Python types can be compared.        *)
(***************************************************************************)
EXTENDS Integers, Sequences, FiniteSets, TLC

VARIABLES
    pc,                 \* position of the run: "resolve", "resolved", "enhanced", or a harness position
    schema,             \* which columns the source tables of this run carry
    src_idx,            \* index of the table create_master_dataset is iterating
    master_companies,   \* the ordered dict normalized_name -> fragment
    rows_done,          \* history: the <<source, row>> pairs iterated so far
    now,                \* the wall clock read by datetime.now()
    enhanced_companies, \* the list returned by enhance_and_score_companies
    fn_in,              \* arguments of the pure function under study
    fn_out              \* its results

vars == <<pc, schema, src_idx, master_companies, rows_done, now,
          enhanced_companies, fn_in, fn_out>>

-----------------------------------------------------------------------------
(* Bounds of the model *)

\* rows iterated by one run of create_master_dataset
MaxRows == 3

\* length of the strings normalize_company_name is applied to on its own
MaxNameLen == 5

-----------------------------------------------------------------------------
(* Python dict helpers *)

EmptyDict == <<>>

Has(d, k) == k \in DOMAIN d

IsEmptyDict(d) == DOMAIN d = {}

Put(d, k, v) == [x \in (DOMAIN d) \cup {k} |-> IF x = k THEN v ELSE d[x]]

PutIf(cond, d, k, v) == IF cond THEN Put(d, k, v) ELSE d

\* d.get(k, default)
Get(d, k, default) == IF k \in DOMAIN d THEN d[k] ELSE default

\* x in list
InSeq(x, s) == \E i \in 1..Len(s) : s[i] = x

-----------------------------------------------------------------------------
(* Characters and str methods *)

Whitespace == {" ", "\t"}

Digits == <<"0", "1", "2", "3", "4", "5", "6", "7", "8", "9">>

\* the character class of the re.sub that drops punctuation
Punctuation == {"«", "»", "\"", "'", "(", ")", "[", "]", "!", "?", ".", ",", ";", ":"}

UpperOf == [a |-> "A", b |-> "B", h |-> "H", k |-> "K", m |-> "M", o |-> "O",
            r |-> "R", s |-> "S"]

\* str.upper() on one character
UpperChar(c) == IF c \in DOMAIN UpperOf THEN UpperOf[c] ELSE c

\* str.upper()
Upper(s) == [i \in 1..Len(s) |-> UpperChar(s[i])]

RECURSIVE LStrip(_)
LStrip(s) == IF s = <<>> \/ Head(s) \notin Whitespace THEN s ELSE LStrip(Tail(s))

RECURSIVE RStrip(_)
RStrip(s) ==
    IF s = <<>> \/ s[Len(s)] \notin Whitespace THEN s
    ELSE RStrip(SubSeq(s, 1, Len(s) - 1))

\* str.strip()
Strip(s) == RStrip(LStrip(s))

\* re.sub(r'\s+', ' ', s)
RECURSIVE CollapseWhitespace(_)
CollapseWhitespace(s) ==
    IF s = <<>> THEN <<>>
    ELSE IF Head(s) \in Whitespace
         THEN <<" ">> \o CollapseWhitespace(LStrip(Tail(s)))
         ELSE <<Head(s)>> \o CollapseWhitespace(Tail(s))

IsPunctuation(c) == c \in Punctuation

\* re.sub(r'[...]', '', s)
RemovePunctuation(s) == SelectSeq(s, LAMBDA c : ~IsPunctuation(c))

normalize_company_name(name) ==
    IF name = <<>> THEN <<>>
    ELSE Strip(RemovePunctuation(Upper(CollapseWhitespace(Strip(name)))))

-----------------------------------------------------------------------------
(* Cells of a raw row, and values that are an int or a str *)

TextCell(s) == [t |-> "str", s |-> s, n |-> 0, b |-> FALSE]
\* a float cell holds n tenths: FloatCell(125) is 12.5
FloatCell(n) == [t |-> "float", s |-> <<>>, n |-> n, b |-> FALSE]
BoolCell(b) == [t |-> "bool", s |-> <<>>, n |-> 0, b |-> b]

IntV(n) == [t |-> "int", n |-> n, s |-> <<>>]
StrV(s) == [t |-> "str", n |-> 0, s |-> s]

\* isinstance(v, (int, float))
IsNumber(v) == v.t = "int"

\* truth value of an int or a str
TruthyV(v) == IF v.t = "int" THEN v.n # 0 ELSE v.s # <<>>

RECURSIVE DigitsOf(_)
DigitsOf(n) ==
    IF n < 10 THEN <<Digits[n + 1]>>
    ELSE DigitsOf(n \div 10) \o <<Digits[(n % 10) + 1]>>

\* str(cell)
Str(cell) ==
    CASE cell.t = "str" -> cell.s
      [] cell.t = "bool" -> IF cell.b THEN <<"T", "r", "u", "e">>
                            ELSE <<"F", "a", "l", "s", "e">>
      [] cell.t = "float" -> DigitsOf(cell.n \div 10) \o <<".">> \o DigitsOf(cell.n % 10)

\* bool(cell)
Bool(cell) ==
    CASE cell.t = "str" -> cell.s # <<>>
      [] cell.t = "bool" -> cell.b
      [] cell.t = "float" -> cell.n # 0

IsDigit(c) == \E i \in 1..10 : Digits[i] = c

DigitValue(c) == (CHOOSE i \in 1..10 : Digits[i] = c) - 1

RECURSIVE DecimalValue(_)
DecimalValue(s) ==
    IF s = <<>> THEN 0
    ELSE 10 * DecimalValue(SubSeq(s, 1, Len(s) - 1)) + DigitValue(s[Len(s)])

\* a non-empty run of digits
IsDigits(t) == t # <<>> /\ \A i \in 1..Len(t) : IsDigit(t[i])

\* position of the first "." of t, 0 when there is none
DotIndex(t) ==
    IF InSeq(".", t) THEN CHOOSE i \in 1..Len(t) : t[i] = "." /\ \A j \in 1..(i - 1) : t[j] # "."
    ELSE 0

\* the digits before and after the decimal point
WholeDigits(t) == IF DotIndex(t) = 0 THEN t ELSE SubSeq(t, 1, DotIndex(t) - 1)
FractionDigits(t) == IF DotIndex(t) = 0 THEN <<>> ELSE SubSeq(t, DotIndex(t) + 1, Len(t))

\* whether float(t) returns, for t without sign, exponent, underscore or
\* inf/nan: digits with at most one decimal point and a digit on one side of it
IsFloatText(t) ==
    /\ WholeDigits(t) = <<>> \/ IsDigits(WholeDigits(t))
    /\ FractionDigits(t) = <<>> \/ IsDigits(FractionDigits(t))
    /\ WholeDigits(t) # <<>> \/ FractionDigits(t) # <<>>

\* whether int(float(cell)) returns (float() skips the whitespace around a text)
IntOfFloatOk(cell) == IF cell.t = "str" THEN IsFloatText(Strip(cell.s)) ELSE TRUE

\* int(float(cell)): truncation of the float
IntOfFloat(cell) ==
    CASE cell.t = "str" -> DecimalValue(WholeDigits(Strip(cell.s)))
      [] cell.t = "bool" -> IF cell.b THEN 1 ELSE 0
      [] cell.t = "float" -> cell.n \div 10

\* IntOrText when the text is kept whatever the cell holds
IntOrText_text(cell) == StrV(Strip(Str(cell)))

\* try: int(float(cell))  except: str(cell).strip()
IntOrText(cell) ==
    IF IntOfFloatOk(cell) THEN IntV(IntOfFloat(cell)) ELSE StrV(Strip(Str(cell)))

-----------------------------------------------------------------------------
(* extract_all_company_info *)

name_candidates == <<"name", "company_name", "employer", "hh_employer_name">>

site_candidates == <<"site", "site_url", "website", "final_url", "url",
                     "hh_employer_url", "support_url", "kb_url">>

email_candidates == <<"support_email", "email", "e-mail", "contact_email">>

size_cols == <<"support_team_size_min", "support_team_size", "team_size">>

evidence_cols == <<"support_evidence", "evidence_type">>

\* <<column, channel>> in the order the columns are tested
channel_columns == << <<"has_support_email", "email">>,
                      <<"has_contact_form", "contact_form">>,
                      <<"has_online_chat", "online_chat">>,
                      <<"has_messengers", "messengers">>,
                      <<"has_support_section", "support_section">>,
                      <<"has_kb_or_faq", "kb_faq">>,
                      <<"mentions_24_7", "24_7">> >>

ChannelNames == {channel_columns[i][2] : i \in 1..Len(channel_columns)}

\* `col in row and pd.notna(row[col])`: a row holds the columns whose cell is not NaN
Present(row, col) == Has(row, col)

\* for col in cols: if present: ...; break   (0: no column is present)
FirstPresent(row, cols) ==
    IF \E i \in 1..Len(cols) : Present(row, cols[i])
    THEN CHOOSE i \in 1..Len(cols) :
            Present(row, cols[i]) /\ \A j \in 1..(i - 1) : ~Present(row, cols[j])
    ELSE 0

RECURSIVE CollectSites(_, _, _)
CollectSites(row, cols, sites) ==
    IF cols = <<>> THEN sites
    ELSE LET col == Head(cols)
             site == Strip(Str(row[col]))
         IN  CollectSites(row, Tail(cols),
                 IF Present(row, col) /\ site # <<>> /\ ~InSeq(site, sites)
                 THEN Append(sites, site) ELSE sites)

RECURSIVE CollectEmails(_, _, _)
CollectEmails(row, cols, emails) ==
    IF cols = <<>> THEN emails
    ELSE LET col == Head(cols)
             email_val == Strip(Str(row[col]))
         IN  CollectEmails(row, Tail(cols),
                 IF Present(row, col) /\ InSeq("@", email_val) /\ ~InSeq(email_val, emails)
                 THEN Append(emails, email_val) ELSE emails)

RECURSIVE CollectChannels(_, _, _)
CollectChannels(row, cols, channels) ==
    IF cols = <<>> THEN channels
    ELSE LET col == Head(cols)[1]
             channel == Head(cols)[2]
         IN  CollectChannels(row, Tail(cols),
                 IF Present(row, col) THEN Put(channels, channel, Bool(row[col]))
                 ELSE channels)

\* the stripped text of a column, stored under key when the column is present
PutText(d, row, col, key) == PutIf(Present(row, col), d, key, Strip(Str(row[col])))

\* bool(cell), stored under key when the column is present
PutBool(d, row, col, key) == PutIf(Present(row, col), d, key, Bool(row[col]))

\* the int of a column, else its stripped text, stored under key when present
PutIntOrText(d, row, col, key) == PutIf(Present(row, col), d, key, IntOrText(row[col]))

extract_support_info(row) ==
    LET size_i == FirstPresent(row, size_cols)
        ev_i == FirstPresent(row, evidence_cols)
        s1 == PutIf(size_i # 0, EmptyDict, "team_size", IntOrText(row[size_cols[size_i]]))
        s2 == PutIf(ev_i # 0, s1, "evidence", Strip(Str(row[evidence_cols[ev_i]])))
        s3 == PutText(s2, row, "evidence_url", "evidence_url")
        channels == CollectChannels(row, channel_columns, EmptyDict)
        s4 == PutIf(~IsEmptyDict(channels), s3, "channels", channels)
        s5 == PutText(s4, row, "chat_vendor", "chat_vendor")
        s6 == PutIntOrText(s5, row, "support_vacancies_found", "support_vacancies")
        s7 == PutText(s6, row, "vacancy_details", "vacancy_details")
    IN  PutIntOrText(s7, row, "vacancies_count", "total_vacancies")

extract_metadata(row) ==
    LET m1 == PutBool(EmptyDict, row, "parsing_success", "parsing_success")
        m2 == PutText(m1, row, "parsing_method", "parsing_method")
        m3 == PutBool(m2, row, "analysis_success", "analysis_success")
        m4 == PutText(m3, row, "source", "data_source")
    IN  PutText(m4, row, "page_title", "page_title")

extract_all_company_info(row, source) ==
    LET name_i == FirstPresent(row, name_candidates)
        i0 == [source |-> source]
        i1 == PutIf(name_i # 0, i0, "name", Strip(Str(row[name_candidates[name_i]])))
        i2 == Put(i1, "sites", CollectSites(row, site_candidates, <<>>))
        i3 == Put(i2, "emails", CollectEmails(row, email_candidates, <<>>))
        i4 == PutText(i3, row, "industry", "industry")
        i5 == PutText(i4, row, "inn", "inn")
        support_info == extract_support_info(row)
        i6 == PutIf(~IsEmptyDict(support_info), i5, "support_info", support_info)
        meta == extract_metadata(row)
    IN  PutIf(~IsEmptyDict(meta), i6, "metadata", meta)

-----------------------------------------------------------------------------
(* calculate_company_score *)

\* TruthyText when an empty text counts as a value
TruthyText_present(d, key) == Has(d, key)

\* truth value of company.get(key) for a str value
TruthyText(d, key) == Has(d, key) /\ d[key] # <<>>

\* TrueCount when every flag is counted, true or not
TrueCount_all(channels) == Cardinality(DOMAIN channels)

\* TrueCount when the false flags are the ones counted
TrueCount_false(channels) == Cardinality({c \in DOMAIN channels : ~channels[c]})

\* sum(1 for v in channels.values() if v)
TrueCount(channels) == Cardinality({c \in DOMAIN channels : channels[c]})

\* max(a, b)
Max(a, b) == IF a >= b THEN a ELSE b

\* A cap that lets its first argument through unchanged.
Min_uncapped(a, b) == a

\* min(a, b)
Min(a, b) == IF a <= b THEN a ELSE b

support_score(support_info) ==
    IF IsEmptyDict(support_info) THEN 0
    ELSE 10
         + (IF Has(support_info, "team_size") /\ TruthyV(support_info["team_size"])
            THEN 10 ELSE 0)
         + (IF TruthyText(support_info, "evidence") THEN 10 ELSE 0)
         + (IF Has(support_info, "channels") /\ ~IsEmptyDict(support_info["channels"])
            THEN Min(TrueCount(support_info["channels"]) * 3, 10) ELSE 0)

calculate_company_score(company) ==
    LET score == (IF TruthyText(company, "name") THEN 10 ELSE 0)
               + (IF TruthyText(company, "inn") THEN 10 ELSE 0)
               + (IF TruthyText(company, "industry") THEN 10 ELSE 0)
               + (IF TruthyText(company, "primary_site") THEN 15 ELSE 0)
               + (IF TruthyText(company, "primary_email") THEN 15 ELSE 0)
               + support_score(Get(company, "support_info", EmptyDict))
    IN  Min(score, 100)

-----------------------------------------------------------------------------
(* merge_company_info *)

\* set(xs) for a list xs
SetOf(xs) == {xs[i] : i \in 1..Len(xs)}

\* the lists list(set(xs)) can be: set iteration order is not fixed by the
\* language (str hashes are salted per process)
ListsOfSet(xs) ==
    LET S == SetOf(xs)
    IN  {l \in [1..Cardinality(S) -> S] : SetOf(l) = S}

\* one pass of the loop over team_size, support_vacancies, total_vacancies
merge_numeric_field(merged_support, new_support, field) ==
    IF Has(new_support, field)
    THEN LET new_val == new_support[field]
         IN  IF Has(merged_support, field)
             THEN IF IsNumber(new_val) /\ IsNumber(merged_support[field])
                  THEN Put(merged_support, field,
                           IntV(Max(merged_support[field].n, new_val.n)))
                  ELSE Put(merged_support, field, new_val)
             ELSE Put(merged_support, field, new_val)
    ELSE merged_support

\* merge_channels when the incoming flag is stored whatever the stored one is
merge_channels_overwrite(channels, new_channels) ==
    [c \in (DOMAIN channels) \cup (DOMAIN new_channels) |->
        IF Has(new_channels, c) THEN new_channels[c] ELSE channels[c]]

\* the loop over new_support['channels'].items()
merge_channels(channels, new_channels) ==
    [c \in (DOMAIN channels) \cup (DOMAIN new_channels) |->
        IF Has(new_channels, c) /\ (~Has(channels, c) \/ ~channels[c])
        THEN new_channels[c] ELSE channels[c]]

\* one pass of the loop over evidence, evidence_url, chat_vendor, vacancy_details
merge_text_field(merged_support, new_support, field) ==
    IF TruthyText(new_support, field) /\ ~TruthyText(merged_support, field)
    THEN Put(merged_support, field, new_support[field])
    ELSE merged_support

\* merge_support_info when the incoming support_info replaces the stored one
merge_support_info_replace(existing_support, new_support) ==
    IF IsEmptyDict(new_support) THEN existing_support ELSE new_support

merge_support_info(existing_support, new_support) ==
    LET n1 == merge_numeric_field(existing_support, new_support, "team_size")
        n2 == merge_numeric_field(n1, new_support, "support_vacancies")
        n3 == merge_numeric_field(n2, new_support, "total_vacancies")
        c1 == PutIf(Has(new_support, "channels"), n3, "channels",
                    merge_channels(Get(n3, "channels", EmptyDict),
                                   new_support["channels"]))
        t1 == merge_text_field(c1, new_support, "evidence")
        t2 == merge_text_field(t1, new_support, "evidence_url")
        t3 == merge_text_field(t2, new_support, "chat_vendor")
    IN  merge_text_field(t3, new_support, "vacancy_details")

merge_metadata(existing_meta, new_meta) ==
    [key \in (DOMAIN existing_meta) \cup (DOMAIN new_meta) |->
        IF Has(existing_meta, key) THEN existing_meta[key] ELSE new_meta[key]]

\* merge_business_field when a later non-empty value replaces the stored one
merge_business_field_lastwins(merged, new, field) ==
    IF TruthyText(new, field) THEN Put(merged, field, new[field]) ELSE merged

\* one pass of the loop over industry, inn
merge_business_field(merged, new, field) ==
    IF TruthyText(new, field) /\ ~TruthyText(merged, field)
    THEN Put(merged, field, new[field])
    ELSE merged

\* the name update when the incoming name is taken whenever there is one
merge_name_incoming(merged, new) ==
    PutIf(TruthyText(new, "name"), merged, "name", new["name"])

\* `if not merged.get('name') and new.get('name')`
merge_name(merged, new) ==
    PutIf(~TruthyText(merged, "name") /\ TruthyText(new, "name"), merged, "name", new["name"])

merge_sources(merged, new) ==
    LET sources == Get(merged, "sources", <<>>)
    IN  Put(merged, "sources",
            IF Has(new, "source") /\ new["source"] # <<>> /\ ~InSeq(new["source"], sources)
            THEN Append(sources, new["source"]) ELSE sources)

\* all_sites and all_emails are the lists list(set(...)) returned; t is datetime.now()
merge_company_info(existing, new, all_sites, all_emails, t) ==
    LET m0 == existing
        m1 == merge_name(m0, new)
        m2 == IF all_sites # <<>>
              THEN Put(Put(m1, "sites", all_sites), "primary_site", all_sites[1])
              ELSE m1
        m3 == IF all_emails # <<>>
              THEN Put(Put(m2, "emails", all_emails), "primary_email", all_emails[1])
              ELSE m2
        m4 == merge_business_field(m3, new, "industry")
        m5 == merge_business_field(m4, new, "inn")
        existing_support == Get(m5, "support_info", EmptyDict)
        new_support == Get(new, "support_info", EmptyDict)
        m6 == PutIf(~IsEmptyDict(existing_support) \/ ~IsEmptyDict(new_support),
                    m5, "support_info", merge_support_info(existing_support, new_support))
        existing_meta == Get(m6, "metadata", EmptyDict)
        new_meta == Get(new, "metadata", EmptyDict)
        m7 == PutIf(~IsEmptyDict(existing_meta) \/ ~IsEmptyDict(new_meta),
                    m6, "metadata", merge_metadata(existing_meta, new_meta))
        m8 == merge_sources(m7, new)
    IN  Put(m8, "last_updated", t)

\* the arguments of the two list(set(...)) calls of a merge
SitesArg(existing, new) == Get(existing, "sites", <<>>) \o Get(new, "sites", <<>>)
EmailsArg(existing, new) == Get(existing, "emails", <<>>) \o Get(new, "emails", <<>>)

\* the argument `existing` as the caller finds it after the call: merged and
\* merged_support are shallow copies, so existing's channels dict and sources
\* list are the objects the function writes to
existing_after_merge(existing, new) ==
    LET existing_support == Get(existing, "support_info", EmptyDict)
        new_support == Get(new, "support_info", EmptyDict)
        e1 == IF Has(existing_support, "channels") /\ Has(new_support, "channels")
              THEN Put(existing, "support_info",
                       Put(existing_support, "channels",
                           merge_channels(existing_support["channels"],
                                          new_support["channels"])))
              ELSE existing
    IN  IF Has(e1, "sources") THEN Put(e1, "sources", merge_sources(e1, new)["sources"])
        ELSE e1

\* the argument `new` after the call: the function never writes to it or to an
\* object it holds
new_after_merge(existing, new) == new

-----------------------------------------------------------------------------
(* The ordered dict master_companies *)

\* position of key in the dict, 0 when absent
KeyIndex(d, key) ==
    IF \E i \in 1..Len(d) : d[i].k = key
    THEN CHOOSE i \in 1..Len(d) : d[i].k = key
    ELSE 0

\* HasKey when the key is looked for among the display names
HasKey_by_name(d, key) == \E i \in 1..Len(d) : d[i].v["name"] = key

\* key in d
HasKey(d, key) == KeyIndex(d, key) # 0

\* d[key]
Lookup(d, key) == d[KeyIndex(d, key)].v

\* d[key] = value for a key already in d: the key keeps its position
Assign(d, key, value) == [d EXCEPT ![KeyIndex(d, key)] = [k |-> key, v |-> value]]

\* d[key] = value for a key not yet in d: the key goes last
Insert(d, key, value) == Append(d, [k |-> key, v |-> value])

-----------------------------------------------------------------------------
(* enhance_and_score_companies *)

\* ZeroPad4 without the padding
ZeroPad4_unpadded(n) == DigitsOf(n)

\* f"{n:04d}"
ZeroPad4(n) ==
    LET ds == DigitsOf(n)
    IN  [i \in 1..(IF Len(ds) < 4 THEN 4 - Len(ds) ELSE 0) |-> "0"] \o ds

\* ', '.join(xs)
RECURSIVE JoinComma(_)
JoinComma(xs) ==
    IF xs = <<>> THEN <<>>
    ELSE IF Len(xs) = 1 THEN xs[1]
    ELSE xs[1] \o <<",", " ">> \o JoinComma(Tail(xs))

\* the clauses of the description, each a <<label, value>> pair; the labels stand
\* for the literal texts of the function (the description is the clauses joined
\* by ' | ', or the placeholder text alone when there is none)
description_parts(company) ==
    (IF TruthyText(company, "industry")
     THEN << <<"industry_label", company["industry"]>> >> ELSE <<>>)
    \o (IF TruthyV(company["support_team_size"])
        THEN << <<"team_size_label", company["support_team_size"]>> >> ELSE <<>>)
    \o (IF company["support_channels_count"] > 0
        THEN << <<"channels_label", company["support_channels_count"]>> >> ELSE <<>>)

\* the body of the loop: the fields added to the n-th company enriched
enhance_company(company, n) ==
    LET support_info == Get(company, "support_info", EmptyDict)
        channels == Get(support_info, "channels", EmptyDict)
        c1 == Put(company, "company_id", <<"C">> \o ZeroPad4(n))
        c2 == Put(c1, "data_quality_score", calculate_company_score(c1))
        c3 == Put(c2, "has_support_team",
                  Has(support_info, "team_size") /\ TruthyV(support_info["team_size"]))
        c4 == Put(c3, "support_team_size", Get(support_info, "team_size", IntV(0)))
        c5 == Put(c4, "support_channels_count", TrueCount(channels))
        c6 == Put(c5, "has_24_7_support", Get(channels, "24_7", FALSE))
        c7 == Put(c6, "support_vacancies", Get(support_info, "support_vacancies", IntV(0)))
        c8 == Put(c7, "total_vacancies", Get(support_info, "total_vacancies", IntV(0)))
        c9 == Put(c8, "data_sources", JoinComma(Get(company, "sources", <<>>)))
        parts == description_parts(c9)
    IN  Put(c9, "description", IF parts # <<>> THEN parts ELSE <<"no_information_label">>)

\* the list after the loop, before the sort
enhanced_in_order(master) ==
    [i \in 1..Len(master) |-> enhance_company(master[i].v, i)]

\* SortedInsert when a record goes in front of the records of equal score
RECURSIVE SortedInsert_unstable(_, _)
SortedInsert_unstable(sorted, x) ==
    IF sorted = <<>> THEN <<x>>
    ELSE IF Head(sorted)["data_quality_score"] > x["data_quality_score"]
         THEN <<Head(sorted)>> \o SortedInsert_unstable(Tail(sorted), x)
         ELSE <<x>> \o sorted

\* list.sort(key=data_quality_score, reverse=True): stable, by insertion
RECURSIVE SortedInsert(_, _)
SortedInsert(sorted, x) ==
    IF sorted = <<>> THEN <<x>>
    ELSE IF Head(sorted)["data_quality_score"] >= x["data_quality_score"]
         THEN <<Head(sorted)>> \o SortedInsert(Tail(sorted), x)
         ELSE <<x>> \o sorted

RECURSIVE SortByScore(_)
SortByScore(xs) ==
    IF xs = <<>> THEN <<>>
    ELSE SortedInsert(SortByScore(SubSeq(xs, 1, Len(xs) - 1)), xs[Len(xs)])

enhance_and_score_companies(master) == SortByScore(enhanced_in_order(master))

-----------------------------------------------------------------------------
(* Inputs of a run: the source tables and the rows they may hold *)

Site == <<"s", "i", "t", "e">>
Jobs == <<"j", "o", "b", "s">>

\* the keys of data_sources, in the order create_master_dataset iterates them
SourceNames == <<Site, Jobs>>

\* cell texts
Url1 == <<"s", "1">>
Url2 == <<"s", "2">>
Mail1 == <<"m", "@", "s", "1">>
NoAt == <<"m", "s", "1">>
Inn111 == <<"1", "1", "1">>
Inn222 == <<"2", "2", "2">>
Blank == <<" ">>
Many == <<"m", "a", "n", "y">>
OooRomashka == <<"O", "O", "O", " ", "R", "o", "m", "a", "s", "h", "k", "a">>
Romashka == <<"R", "o", "m", "a", "s", "h", "k", "a">>

\* a row with these columns set (cols: a set of <<column, cell>> pairs, one per column)
Row(cols) == [c \in {p[1] : p \in cols} |-> (CHOOSE p \in cols : p[1] = c)[2]]

Named(n, cols) == Row({<<"name", TextCell(n)>>} \cup cols)

\* display names that differ in case, punctuation and whitespace
NamesRows ==
    {Named(n, {}) : n \in {<<"a">>, <<"A">>, <<" ", "a", "\t">>, <<"a", ".">>,
                           <<"a", " ", "b">>, <<"a", "\t", " ", "b">>, <<"b">>}}
    \cup {Named(<<"b">>, {<<"inn", TextCell(Inn111)>>})}

\* blank names, names of punctuation only, and the later name columns
BlankRows ==
    {Named(n, {}) : n \in {<<"a">>, <<".">>, <<"!", "?">>, Blank}}
    \cup {Row({<<"company_name", TextCell(<<"b">>)>>}),
          Row({<<"name", TextCell(Blank)>>, <<"company_name", TextCell(<<"b">>)>>}),
          Row({<<"site", TextCell(Url1)>>})}

BusinessRows ==
    {Named(<<"a">>, {})}
    \cup {Named(<<"a">>, {<<"inn", TextCell(i)>>}) : i \in {Blank, Inn111, Inn222}}
    \cup {Named(<<"a">>, {<<"industry", TextCell(i)>>}) : i \in {<<"i", "t">>, <<"f", "i", "n">>}}
    \cup {Named(<<"b">>, {<<"inn", TextCell(Inn222)>>})}

TeamSizeRows ==
    {Named(<<"a">>, {<<"support_team_size_min", c>>}) :
        c \in {FloatCell(57), FloatCell(120), FloatCell(0), TextCell(Many)}}
    \cup {Named(<<"a">>, {}),
          Named(<<"a">>, {<<"support_team_size", TextCell(<<"1", "3">>)>>,
                          <<"team_size", FloatCell(990)>>}),
          Named(<<"b">>, {<<"support_team_size_min", FloatCell(120)>>})}

VacancyRows ==
    {Named(<<"a">>, {<<"support_vacancies_found", c>>}) :
        c \in {FloatCell(30), FloatCell(10), TextCell(Many)}}
    \cup {Named(<<"a">>, {<<"vacancies_count", c>>}) : c \in {FloatCell(20), TextCell(<<"7">>)}}
    \cup {Named(<<"a">>, {}),
          Named(<<"b">>, {<<"support_vacancies_found", FloatCell(30)>>})}

ChannelRows ==
    {Named(<<"a">>, chat \cup mail) :
        chat \in {{}, {<<"has_online_chat", BoolCell(TRUE)>>},
                  {<<"has_online_chat", BoolCell(FALSE)>>}},
        mail \in {{}, {<<"has_support_email", BoolCell(TRUE)>>}}}
    \cup {Named(<<"b">>, {<<"mentions_24_7", BoolCell(TRUE)>>})}

ContactRows ==
    {Named(<<"a">>, site \cup mail) :
        site \in {{}, {<<"site", TextCell(Url1)>>}, {<<"site", TextCell(Url2)>>}},
        mail \in {{}, {<<"support_email", TextCell(Mail1)>>}}}
    \cup {Named(<<"b">>, {<<"site", TextCell(Url1)>>, <<"website", TextCell(Url2)>>,
                          <<"url", TextCell(Url1)>>, <<"email", TextCell(NoAt)>>,
                          <<"contact_email", TextCell(Mail1)>>})}

\* free-text evidence and metadata of one company: blank, then two values
TextRows ==
    {Named(<<"a">>, {})}
    \cup {Named(<<"a">>, {<<"support_evidence", TextCell(t)>>}) :
             t \in {Blank, <<"e", "1">>, <<"e", "2">>}}
    \cup {Named(<<"a">>, {<<"parsing_method", TextCell(t)>>}) :
             t \in {Blank, <<"m", "1">>, <<"m", "2">>}}

\* the columns of the site-scrape row and of the job-listing row of the scenario
SiteColumns == {<<"support_team_size_min", FloatCell(120)>>,
                <<"has_online_chat", BoolCell(TRUE)>>}

JobsColumns == {<<"support_vacancies_found", FloatCell(30)>>,
                <<"has_support_email", BoolCell(TRUE)>>}

ScenarioRows ==
    {Named(n, cols) : n \in {OooRomashka, Romashka}, cols \in {SiteColumns, JobsColumns}}

Schemas == {"names", "blank", "business", "team_size", "vacancies", "channels",
            "contacts", "scenario", "texts"}

\* the rows a table of the run may hold
RowsOf(sch) ==
    CASE sch = "names" -> NamesRows
      [] sch = "blank" -> BlankRows
      [] sch = "business" -> BusinessRows
      [] sch = "team_size" -> TeamSizeRows
      [] sch = "vacancies" -> VacancyRows
      [] sch = "channels" -> ChannelRows
      [] sch = "contacts" -> ContactRows
      [] sch = "scenario" -> ScenarioRows
      [] sch = "texts" -> TextRows

-----------------------------------------------------------------------------
(* create_master_dataset, one action per path through the loop body *)

Idle == <<>>

Init ==
    /\ pc = "resolve"
    /\ schema \in Schemas
    /\ src_idx = 1
    /\ master_companies = <<>>
    /\ rows_done = <<>>
    /\ now = 0
    /\ enhanced_companies = <<>>
    /\ fn_in = Idle
    /\ fn_out = Idle

\* the row the inner loop yields next
Iterating(row) ==
    /\ pc = "resolve"
    /\ Len(rows_done) < MaxRows
    /\ row \in RowsOf(schema)

Iterated(row) ==
    /\ rows_done' = Append(rows_done, <<SourceNames[src_idx], row>>)
    /\ UNCHANGED <<pc, schema, src_idx, enhanced_companies, fn_in, fn_out>>

\* `if not company_info.get('name'): continue`
SkipRow ==
    \E row \in RowsOf(schema) :
        LET company_info == extract_all_company_info(row, SourceNames[src_idx])
        IN  /\ Iterating(row)
            /\ ~TruthyText(company_info, "name")
            /\ Iterated(row)
            /\ UNCHANGED <<master_companies, now>>

\* the else branch: a new key
CreateRow ==
    \E row \in RowsOf(schema) :
        LET company_info == extract_all_company_info(row, SourceNames[src_idx])
            normalized_name == normalize_company_name(company_info["name"])
        IN  /\ Iterating(row)
            /\ TruthyText(company_info, "name")
            /\ ~HasKey(master_companies, normalized_name)
            /\ master_companies' =
                   Insert(master_companies, normalized_name,
                          Put(company_info, "normalized_name", normalized_name))
            /\ Iterated(row)
            /\ UNCHANGED now

\* the if branch: the key is in master_companies
MergeRow ==
    \E row \in RowsOf(schema) :
        LET company_info == extract_all_company_info(row, SourceNames[src_idx])
            normalized_name == normalize_company_name(company_info["name"])
            existing == Lookup(master_companies, normalized_name)
        IN  /\ Iterating(row)
            /\ TruthyText(company_info, "name")
            /\ HasKey(master_companies, normalized_name)
            /\ \E all_sites \in ListsOfSet(SitesArg(existing, company_info)),
                  all_emails \in ListsOfSet(EmailsArg(existing, company_info)) :
                   master_companies' =
                       Assign(master_companies, normalized_name,
                              merge_company_info(existing, company_info,
                                                 all_sites, all_emails, now))
            /\ now' = now + 1
            /\ Iterated(row)

\* the inner loop ends and the outer loop takes the next table
NextSource ==
    /\ pc = "resolve"
    /\ src_idx < Len(SourceNames)
    /\ src_idx' = src_idx + 1
    /\ UNCHANGED <<pc, schema, master_companies, rows_done, now, enhanced_companies,
                   fn_in, fn_out>>

\* the outer loop ends: return master_companies
ReturnMaster ==
    /\ pc = "resolve"
    /\ src_idx = Len(SourceNames)
    /\ pc' = "resolved"
    /\ UNCHANGED <<schema, src_idx, master_companies, rows_done, now,
                   enhanced_companies, fn_in, fn_out>>

\* enhance_and_score_companies(master_companies): the fragments are enriched in
\* place, so the dict holds the enriched records too
Enhance ==
    /\ pc = "resolved"
    /\ enhanced_companies' = enhance_and_score_companies(master_companies)
    /\ master_companies' =
           [i \in 1..Len(master_companies) |->
               [k |-> master_companies[i].k,
                v |-> enhance_company(master_companies[i].v, i)]]
    /\ pc' = "enhanced"
    /\ UNCHANGED <<schema, src_idx, rows_done, now, fn_in, fn_out>>

Next == SkipRow \/ CreateRow \/ MergeRow \/ NextSource \/ ReturnMaster \/ Enhance

Spec == Init /\ [][Next]_vars

-----------------------------------------------------------------------------
(* normalize_company_name on its own: applied to a string, then to its result *)

NormAlphabet == {"a", "A", " ", "\t", "."}

NormInputs == UNION {[1..n -> NormAlphabet] : n \in 0..MaxNameLen}

PipelineIdle ==
    /\ schema = "none"
    /\ src_idx = 0
    /\ master_companies = <<>>
    /\ rows_done = <<>>
    /\ now = 0
    /\ enhanced_companies = <<>>

InitNorm ==
    /\ pc = "normalize"
    /\ fn_in \in NormInputs
    /\ fn_out = <<>>
    /\ PipelineIdle

NormalizeOnce ==
    /\ pc = "normalize"
    /\ fn_out' = <<normalize_company_name(fn_in)>>
    /\ pc' = "normalized"
    /\ UNCHANGED <<fn_in, schema, src_idx, master_companies, rows_done, now,
                   enhanced_companies>>

NormalizeAgain ==
    /\ pc = "normalized"
    /\ fn_out' = Append(fn_out, normalize_company_name(fn_out[1]))
    /\ pc' = "renormalized"
    /\ UNCHANGED <<fn_in, schema, src_idx, master_companies, rows_done, now,
                   enhanced_companies>>

NextNorm == NormalizeOnce \/ NormalizeAgain

SpecNorm == InitNorm /\ [][NextNorm]_vars

-----------------------------------------------------------------------------
(* merge_company_info on its own: on the fragments extracted from two or three rows *)

NumericColumns == {"support_team_size_min", "support_vacancies_found", "vacancies_count"}

\* the fragment field a numeric column is extracted to
FieldOf(col) ==
    CASE col = "support_team_size_min" -> "team_size"
      [] col = "support_vacancies_found" -> "support_vacancies"
      [] col = "vacancies_count" -> "total_vacancies"

\* rows of one company whose numeric evidence is in column col
MergeRowsOf(col) ==
    {Named(<<"a">>, {})}
    \cup {Named(<<"a">>, {<<col, c>>}) : c \in {FloatCell(57), FloatCell(120), TextCell(Many)}}
    \cup {Named(<<"a">>, {<<"has_online_chat", BoolCell(b)>>}) : b \in BOOLEAN}
    \cup {Named(<<"a">>, {<<"site", TextCell(Url1)>>, <<"support_email", TextCell(Mail1)>>}),
          Named(<<"a">>, {<<"site", TextCell(Url2)>>}),
          Named(<<"a">>, {<<col, FloatCell(120)>>, <<"has_online_chat", BoolCell(TRUE)>>,
                          <<"site", TextCell(Url1)>>}),
          Named(<<"a">>, {<<col, TextCell(Many)>>, <<"has_online_chat", BoolCell(FALSE)>>,
                          <<"has_support_email", BoolCell(TRUE)>>,
                          <<"site", TextCell(Url2)>>, <<"support_email", TextCell(Mail1)>>})}

InitMerge ==
    /\ pc = "merge"
    /\ \E col \in NumericColumns :
          \E ra \in MergeRowsOf(col), rb \in MergeRowsOf(col), rc \in MergeRowsOf(col) :
              fn_in = [field |-> FieldOf(col),
                       a |-> extract_all_company_info(ra, Site),
                       b |-> extract_all_company_info(rb, Jobs),
                       c |-> extract_all_company_info(rc, Jobs)]
    /\ fn_out = <<>>
    /\ PipelineIdle

\* the results merge_company_info(existing, new) can return
Merges(existing, new) ==
    {merge_company_info(existing, new, all_sites, all_emails, 0) :
        all_sites \in ListsOfSet(SitesArg(existing, new)),
        all_emails \in ListsOfSet(EmailsArg(existing, new))}

\* merge(a, b) and merge(b, a)
MergePair ==
    /\ pc = "merge"
    /\ \E ab \in Merges(fn_in.a, fn_in.b), ba \in Merges(fn_in.b, fn_in.a) :
          fn_out' = [ab |-> ab, ba |-> ba]
    /\ pc' = "pair"
    /\ UNCHANGED <<fn_in, schema, src_idx, master_companies, rows_done, now,
                   enhanced_companies>>

\* merge(merge(a, b), c) and merge(a, merge(b, c))
MergeTriple ==
    /\ pc = "merge"
    /\ \E ab \in Merges(fn_in.a, fn_in.b), bc \in Merges(fn_in.b, fn_in.c) :
          \E left \in Merges(ab, fn_in.c), right \in Merges(fn_in.a, bc) :
              fn_out' = [left |-> left, right |-> right]
    /\ pc' = "triple"
    /\ UNCHANGED <<fn_in, schema, src_idx, master_companies, rows_done, now,
                   enhanced_companies>>

\* a call on a stored fragment, merge(a, b), and an incoming one, c, with the
\* two arguments as they are before and after the call
MergeCall ==
    /\ pc = "merge"
    /\ \E ab \in Merges(fn_in.a, fn_in.b) :
          \E merged \in Merges(ab, fn_in.c) :
              fn_out' = [existing_before |-> ab,
                         new_before |-> fn_in.c,
                         merged |-> merged,
                         existing_after |-> existing_after_merge(ab, fn_in.c),
                         new_after |-> new_after_merge(ab, fn_in.c)]
    /\ pc' = "called"
    /\ UNCHANGED <<fn_in, schema, src_idx, master_companies, rows_done, now,
                   enhanced_companies>>

NextMerge == MergePair \/ MergeTriple \/ MergeCall

SpecMerge == InitMerge /\ [][NextMerge]_vars

-----------------------------------------------------------------------------
(* calculate_company_score on its own: on fragments with any fields present *)

ScoredTextKeys == {"name", "inn", "industry", "primary_site", "primary_email"}

\* every fragment carries its source; any of the scored text fields may be present
TextFragments ==
    {[k \in present \cup {"source"} |-> IF k = "source" THEN Site ELSE <<"x">>] :
        present \in SUBSET ScoredTextKeys}

TeamSizes == {IntV(0), IntV(5), StrV(Many)}

Evidences == {<<"e", "v">>}

ChannelDicts == [ChannelNames -> BOOLEAN]

\* the non-empty support_info dicts over team_size, evidence and channels
SupportInfos ==
    {[team_size |-> t] : t \in TeamSizes}
    \cup {[evidence |-> e] : e \in Evidences}
    \cup {[channels |-> c] : c \in ChannelDicts}
    \cup {[team_size |-> t, evidence |-> e] : t \in TeamSizes, e \in Evidences}
    \cup {[team_size |-> t, channels |-> c] : t \in TeamSizes, c \in ChannelDicts}
    \cup {[evidence |-> e, channels |-> c] : e \in Evidences, c \in ChannelDicts}
    \cup {[team_size |-> t, evidence |-> e, channels |-> c] :
             t \in TeamSizes, e \in Evidences, c \in ChannelDicts}

ScoreFragments ==
    TextFragments \cup {Put(f, "support_info", si) : f \in TextFragments, si \in SupportInfos}

InitScore ==
    /\ pc = "score"
    /\ fn_in \in ScoreFragments
    /\ fn_out = 0
    /\ PipelineIdle

Score ==
    /\ pc = "score"
    /\ fn_out' = calculate_company_score(fn_in)
    /\ pc' = "scored"
    /\ UNCHANGED <<fn_in, schema, src_idx, master_companies, rows_done, now,
                   enhanced_companies>>

NextScore == Score

SpecScore == InitScore /\ [][NextScore]_vars

-----------------------------------------------------------------------------
(* extract_all_company_info on its own: on rows with any cell in a numeric column *)

\* length of a cell text
MaxCellLen == 3

CellAlphabet == {"1", "2", " ", ".", "x"}

CellTexts == UNION {[1..n -> CellAlphabet] : n \in 0..MaxCellLen}

CountCells == {TextCell(t) : t \in CellTexts}
                \cup {FloatCell(0), FloatCell(57), BoolCell(TRUE)}

\* the columns read with int(float(...))
CountColumns == SetOf(size_cols) \cup {"support_vacancies_found", "vacancies_count"}

\* rows with one count column, with or without a name, and rows with two of
\* the team-size columns
ExtractRows ==
    {Named(<<"a">>, {<<col, c>>}) : col \in CountColumns, c \in CountCells}
    \cup {Row({<<col, TextCell(<<"x">>)>>}) : col \in CountColumns}
    \cup {Named(<<"a">>, {<<"support_team_size", TextCell(t)>>,
                          <<"team_size", FloatCell(990)>>}) : t \in {<<"1", "2">>, <<"x">>}}

InitExtract ==
    /\ pc = "extract"
    /\ fn_in \in [source : {Site, Jobs}, row : ExtractRows]
    /\ fn_out = <<>>
    /\ PipelineIdle

Extract ==
    /\ pc = "extract"
    /\ fn_out' = extract_all_company_info(fn_in.row, fn_in.source)
    /\ pc' = "extracted"
    /\ UNCHANGED <<fn_in, schema, src_idx, master_companies, rows_done, now,
                   enhanced_companies>>

NextExtract == Extract

SpecExtract == InitExtract /\ [][NextExtract]_vars

-----------------------------------------------------------------------------
(* Two runs of the pipeline on the same tables, row by row side by side *)

\* rows per run
MaxRunRows == 2

\* the maps one pass of the loop body can leave, for the row of a table:
\* skipped, merged into its key (under each order list(set(...)) can return),
\* or stored under a new key
resolve_row(master, source_name, row, t) ==
    LET company_info == extract_all_company_info(row, source_name)
        normalized_name == normalize_company_name(company_info["name"])
        existing == Lookup(master, normalized_name)
    IN  IF ~TruthyText(company_info, "name") THEN {master}
        ELSE IF HasKey(master, normalized_name)
        THEN {Assign(master, normalized_name,
                     merge_company_info(existing, company_info, all_sites, all_emails, t)) :
                 all_sites \in ListsOfSet(SitesArg(existing, company_info)),
                 all_emails \in ListsOfSet(EmailsArg(existing, company_info))}
        ELSE {Insert(master, normalized_name,
                     Put(company_info, "normalized_name", normalized_name))}

\* the rows of the tables in the order the loops iterate them: the rows of
\* "site", then the rows of "jobs"
RunInputs ==
    UNION {{[i \in 1..n |-> <<IF i <= k THEN Site ELSE Jobs, rows[i]>>] :
               rows \in [1..n -> ContactRows], k \in 0..n} : n \in 1..MaxRunRows}

InitRuns ==
    /\ pc = "runs"
    /\ fn_in \in RunInputs
    /\ fn_out = [first |-> <<>>, second |-> <<>>]
    /\ PipelineIdle

\* both runs iterate their next row; the second run runs after the first, so
\* its clock is later
RunsIterate ==
    /\ pc = "runs"
    /\ src_idx < Len(fn_in)
    /\ LET source_name == fn_in[src_idx + 1][1]
           row == fn_in[src_idx + 1][2]
       IN  \E m1 \in resolve_row(fn_out.first, source_name, row, src_idx),
              m2 \in resolve_row(fn_out.second, source_name, row, Len(fn_in) + src_idx) :
               fn_out' = [first |-> m1, second |-> m2]
    /\ src_idx' = src_idx + 1
    /\ UNCHANGED <<pc, fn_in, schema, master_companies, rows_done, now,
                   enhanced_companies>>

\* both runs enrich, score and sort their map
RunsEnhance ==
    /\ pc = "runs"
    /\ src_idx = Len(fn_in)
    /\ fn_out' = [first |-> enhance_and_score_companies(fn_out.first),
                  second |-> enhance_and_score_companies(fn_out.second)]
    /\ pc' = "ran"
    /\ UNCHANGED <<fn_in, schema, src_idx, master_companies, rows_done, now,
                   enhanced_companies>>

NextRuns == RunsIterate \/ RunsEnhance

SpecRuns == InitRuns /\ [][NextRuns]_vars

-----------------------------------------------------------------------------
(* create_master_dataset on the rows of one company, in two orders *)

\* the maps the loops can leave after iterating rows[i], rows[i + 1], ...
\* from one of the maps in masters
RECURSIVE resolve_rows(_, _, _)
resolve_rows(masters, rows, i) ==
    IF i > Len(rows) THEN masters
    ELSE resolve_rows(UNION {resolve_row(m, rows[i][1], rows[i][2], i) : m \in masters},
                      rows, i + 1)

\* the rows of a table come one after the other
TableByTable(rows) ==
    \A i, j, k \in 1..Len(rows) : (i < j /\ j < k /\ rows[i][1] = rows[k][1])
                                      => rows[j][1] = rows[i][1]

OrdersOf(n) == {p \in [1..n -> 1..n] : \A i, j \in 1..n : p[i] = p[j] => i = j}

\* the same rows in another order, within their tables or with the tables swapped
Reorderings(rows) ==
    {r \in {[i \in 1..Len(rows) |-> rows[p[i]]] : p \in OrdersOf(Len(rows))} :
        TableByTable(r)}

OrderInputs ==
    UNION {{[i \in 1..n |-> <<IF i <= k THEN Site ELSE Jobs, rows[i]>>] :
               rows \in [1..n -> MergeRowsOf("support_team_size_min")], k \in 0..n} :
           n \in 1..MaxRunRows}

InitOrder ==
    /\ pc = "order"
    /\ fn_in \in OrderInputs
    /\ fn_out = <<>>
    /\ PipelineIdle

\* the rows are resolved as given, and again in another order
ResolveTwoOrders ==
    /\ pc = "order"
    /\ \E reordered \in Reorderings(fn_in) :
          \E m1 \in resolve_rows({<<>>}, fn_in, 1), m2 \in resolve_rows({<<>>}, reordered, 1) :
              fn_out' = [reordered |-> reordered, first |-> m1, second |-> m2]
    /\ pc' = "ordered"
    /\ UNCHANGED <<fn_in, schema, src_idx, master_companies, rows_done, now,
                   enhanced_companies>>

NextOrder == ResolveTwoOrders

SpecOrder == InitOrder /\ [][NextOrder]_vars

-----------------------------------------------------------------------------
(* The rows iterated so far, as the claims speak of them *)

\* the fragment extracted from the i-th row iterated
InfoOf(i) == extract_all_company_info(rows_done[i][2], rows_done[i][1])

\* the rows that pass the non-empty-name filter
KeptRows == {i \in 1..Len(rows_done) : TruthyText(InfoOf(i), "name")}

KeyOfRow(i) == normalize_company_name(InfoOf(i)["name"])

\* the kept rows of one normalized name
RowsOfKey(key) == {i \in KeptRows : KeyOfRow(i) = key}

\* the resolved map is observed while it is built and once it is returned
Resolving == pc \in {"resolve", "resolved"}

Entries == 1..Len(master_companies)

-----------------------------------------------------------------------------
(* C1 *)

\* C1: the resolved map holds exactly one fragment per distinct normalized name:
\* each fragment's normalized_name is the key it is stored under, no two entries
\* share a key, and the number of fragments (and of Company Records once
\* enhance_and_score_companies has run) is the number of distinct normalized
\* names among the rows whose extracted name is non-empty.
C1_OneFragmentPerName ==
    pc \in {"resolve", "resolved", "enhanced"} =>
        /\ \A e \in Entries :
              /\ Has(master_companies[e].v, "normalized_name")
              /\ master_companies[e].v["normalized_name"] = master_companies[e].k
        /\ \A e1, e2 \in Entries :
              e1 # e2 => master_companies[e1].k # master_companies[e2].k
        /\ Len(master_companies) = Cardinality({KeyOfRow(i) : i \in KeptRows})
        /\ pc = "enhanced" =>
              Len(enhanced_companies) = Cardinality({KeyOfRow(i) : i \in KeptRows})

\* three kept rows, two of them with different display names of one normalized
\* name, have been resolved and enhanced into two records
C1_Witness ==
    /\ pc = "enhanced"
    /\ Cardinality(KeptRows) = 3
    /\ Len(enhanced_companies) = 2
    /\ \E i, j \in KeptRows :
          /\ InfoOf(i)["name"] # InfoOf(j)["name"]
          /\ KeyOfRow(i) = KeyOfRow(j)

-----------------------------------------------------------------------------
(* C2 *)

\* the sources of the kept rows of key up to row n, in order of first appearance
RECURSIVE SourcesUpTo(_, _)
SourcesUpTo(key, n) ==
    IF n = 0 THEN <<>>
    ELSE LET before == SourcesUpTo(key, n - 1)
         IN  IF n \in RowsOfKey(key) /\ ~InSeq(rows_done[n][1], before)
             THEN Append(before, rows_done[n][1])
             ELSE before

\* C2: for every fragment of the resolved map, sources holds, without duplicates
\* and in order of first appearance, exactly the names of the source tables that
\* contributed a non-empty-name row to the fragment's normalized name, the table
\* of the creating row included, also for a fragment built from a single row.
C2_SourcesListContributors ==
    Resolving =>
        \A e \in Entries :
            /\ Has(master_companies[e].v, "sources")
            /\ master_companies[e].v["sources"] =
                   SourcesUpTo(master_companies[e].k, Len(rows_done))

-----------------------------------------------------------------------------
(* C3 *)

NoValue == [t |-> "none", n |-> 0, s |-> <<>>]

\* the value a fragment holds for a field of support_info, NoValue when it has none
SupportValue(fragment, field) ==
    Get(Get(fragment, "support_info", EmptyDict), field, NoValue)

\* C3: for the numeric field under study, merge_company_info(existing, incoming)
\* yields the maximum when both values are numeric, the incoming value when the
\* existing fragment has none, and otherwise the existing value unchanged.
C3_NumericMergePolicy ==
    pc = "pair" =>
        LET old == SupportValue(fn_in.a, fn_in.field)
            new == SupportValue(fn_in.b, fn_in.field)
            got == SupportValue(fn_out.ab, fn_in.field)
        IN  IF IsNumber(old) /\ IsNumber(new) THEN got = IntV(Max(old.n, new.n))
            ELSE IF old = NoValue THEN got = new
            ELSE got = old

-----------------------------------------------------------------------------
(* C4 *)

\* a channel flag of a fragment, an absent flag counting as unset
ChannelFlag(fragment, channel) ==
    Get(Get(Get(fragment, "support_info", EmptyDict), "channels", EmptyDict),
        channel, FALSE)

ChannelOrOfRows ==
    \A e \in Entries : \A c \in ChannelNames :
        ChannelFlag(master_companies[e].v, c)
            = (\E i \in RowsOfKey(master_companies[e].k) : ChannelFlag(InfoOf(i), c))

ChannelStaysObserved ==
    \A e \in Entries : \A c \in ChannelNames :
        ChannelFlag(master_companies[e].v, c) =>
            /\ e \in 1..Len(master_companies')
            /\ master_companies'[e].k = master_companies[e].k
            /\ ChannelFlag(master_companies'[e].v, c)

\* C4: each channel flag of a stored fragment is the OR of that flag over the
\* rows folded into it so far, and a flag that is true in the stored fragment is
\* true after every later step.
C4_ChannelsAreOr == [](Resolving => ChannelOrOfRows) /\ [][ChannelStaysObserved]_vars

\* a fragment holds online_chat true although a row folded in after the one
\* that set it carried online_chat false
C4_Witness ==
    /\ Resolving
    /\ \E e \in Entries : \E i, j \in RowsOfKey(master_companies[e].k) :
          /\ i < j
          /\ ChannelFlag(InfoOf(i), "online_chat")
          /\ Has(Get(Get(InfoOf(j), "support_info", EmptyDict), "channels", EmptyDict),
                 "online_chat")
          /\ ~ChannelFlag(InfoOf(j), "online_chat")
          /\ ChannelFlag(master_companies[e].v, "online_chat")

-----------------------------------------------------------------------------
(* C5 *)

\* the run of the scenario: the site row, then the jobs row
ScenarioRun ==
    rows_done = << <<Site, Named(OooRomashka, SiteColumns)>>,
                   <<Jobs, Named(Romashka, JobsColumns)>> >>

\* the same two rows when the site row carries the name of the jobs row
SameNameRun ==
    rows_done = << <<Site, Named(Romashka, SiteColumns)>>,
                   <<Jobs, Named(Romashka, JobsColumns)>> >>

KeyRomashka == <<"R", "O", "M", "A", "S", "H", "K", "A">>
KeyOooRomashka == <<"O", "O", "O", " ", "R", "O", "M", "A", "S", "H", "K", "A">>

\* the channels dict of a fragment that has one
ChannelsOf(fragment) == fragment["support_info"]["channels"]

HasChannels(fragment) ==
    Has(fragment, "support_info") /\ Has(fragment["support_info"], "channels")

-----------------------------------------------------------------------------
(* C6 *)

\* C6: normalize_company_name is idempotent: applied to its own result it
\* returns that result.
C6_NormalizeIdempotent == pc = "renormalized" => fn_out[2] = fn_out[1]

-----------------------------------------------------------------------------
(* C7, C8 *)

\* a channel flag of a fragment, telling an absent flag from a false one
ChannelState(fragment, channel) ==
    LET channels == Get(Get(fragment, "support_info", EmptyDict), "channels", EmptyDict)
    IN  IF Has(channels, channel) THEN (IF channels[channel] THEN "true" ELSE "false")
        ELSE "absent"

NumericFields == {"team_size", "support_vacancies", "total_vacancies"}

SameContacts(f, g) ==
    /\ SetOf(Get(f, "sites", <<>>)) = SetOf(Get(g, "sites", <<>>))
    /\ SetOf(Get(f, "emails", <<>>)) = SetOf(Get(g, "emails", <<>>))

SameChannels(f, g) == \A c \in ChannelNames : ChannelState(f, c) = ChannelState(g, c)

SameNumbers(f, g) == \A field \in NumericFields : SupportValue(f, field) = SupportValue(g, field)

\* C7: merging A then B gives the same set of sites, set of emails, channel flags
\* and numeric fields as merging B then A.
C7_MergeCommutes ==
    pc = "pair" =>
        /\ SameContacts(fn_out.ab, fn_out.ba)
        /\ SameChannels(fn_out.ab, fn_out.ba)
        /\ SameNumbers(fn_out.ab, fn_out.ba)

\* C8: merge(merge(A, B), C) and merge(A, merge(B, C)) have the same set of
\* sites, set of emails, channel flags and numeric fields.
C8_MergeAssociates ==
    pc = "triple" =>
        /\ SameContacts(fn_out.left, fn_out.right)
        /\ SameChannels(fn_out.left, fn_out.right)
        /\ SameNumbers(fn_out.left, fn_out.right)

-----------------------------------------------------------------------------
(* C9 *)

BusinessFields == {"industry", "inn"}

\* the kept rows of key that carry a non-empty value of field
RowsWithValue(key, field) == {i \in RowsOfKey(key) : TruthyText(InfoOf(i), field)}

First(rows) == CHOOSE i \in rows : \A j \in rows : i <= j

\* C9: industry and inn of a stored fragment are the first non-empty value among
\* the rows of its normalized name, in the order they were processed; later
\* non-empty values are ignored.
C9_FirstNonEmptyWins ==
    Resolving =>
        \A e \in Entries : \A field \in BusinessFields :
            LET rows == RowsWithValue(master_companies[e].k, field)
                f == master_companies[e].v
            IN  IF rows = {} THEN ~TruthyText(f, field)
                ELSE Has(f, field) /\ f[field] = InfoOf(First(rows))[field]

\* a blank inn, then inn 222, then inn 111 were folded into one fragment, which
\* holds 222
C9_Witness ==
    /\ Resolving
    /\ \E e \in Entries : \E i, j, k \in RowsOfKey(master_companies[e].k) :
          /\ i < j /\ j < k
          /\ Has(InfoOf(i), "inn") /\ InfoOf(i)["inn"] = <<>>
          /\ Has(InfoOf(j), "inn") /\ InfoOf(j)["inn"] = Inn222
          /\ Has(InfoOf(k), "inn") /\ InfoOf(k)["inn"] = Inn111
          /\ master_companies[e].v["inn"] = Inn222

-----------------------------------------------------------------------------
(* C10 *)

\* C10: calculate_company_score returns an integer from 0 to 100 for every fragment.
C10_ScoreBounded == pc = "scored" => fn_out \in 0..100

\* a fragment with every scored field and all seven channels true scores 100
C10_Witness ==
    /\ pc = "scored"
    /\ fn_out = 100
    /\ HasChannels(fn_in)
    /\ TrueCount(ChannelsOf(fn_in)) = Cardinality(ChannelNames)

-----------------------------------------------------------------------------
(* C11 *)

SupportOf(fragment) == Get(fragment, "support_info", EmptyDict)

\* the fragment of the scoring scenario: industry, inn, primary_site, team_size,
\* evidence and exactly two true channels, and no name and no primary_email
ScenarioFragment ==
    /\ DOMAIN fn_in = {"source", "industry", "inn", "primary_site", "support_info"}
    /\ DOMAIN fn_in["support_info"] = {"team_size", "evidence", "channels"}
    /\ Cardinality({c \in ChannelNames : fn_in["support_info"]["channels"][c]}) = 2

-----------------------------------------------------------------------------
(* C12 *)

Points(cond, n) == IF cond THEN n ELSE 0

\* the sum of the scoring rule, a team_size counting whenever the key is there
AdditiveSum(f) ==
    Points(TruthyText(f, "name"), 10)
    + Points(TruthyText(f, "inn"), 10)
    + Points(TruthyText(f, "industry"), 10)
    + Points(TruthyText(f, "primary_site"), 15)
    + Points(TruthyText(f, "primary_email"), 15)
    + Points(~IsEmptyDict(SupportOf(f)), 10)
    + Points(Has(SupportOf(f), "team_size"), 10)
    + Points(TruthyText(SupportOf(f), "evidence"), 10)
    + (IF Has(SupportOf(f), "channels")
       THEN LET n == 3 * Cardinality({c \in ChannelNames :
                                         ChannelFlag(f, c)})
            IN  IF n < 10 THEN n ELSE 10
       ELSE 0)

\* C12: the score of every fragment is the additive sum of the scoring rule, a
\* team_size of 0 earning its 10 points too, and the sum is at most 100.
C12_ScoreIsAdditiveSum ==
    pc = "scored" => (fn_out = AdditiveSum(fn_in) /\ AdditiveSum(fn_in) <= 100)

-----------------------------------------------------------------------------
(* C13 *)

\* the support_info dicts that add one absent field to support_info si
SupportAdditions(si) ==
    (IF Has(si, "team_size") THEN {} ELSE {Put(si, "team_size", t) : t \in TeamSizes})
    \cup (IF Has(si, "evidence") THEN {} ELSE {Put(si, "evidence", e) : e \in Evidences})
    \cup (IF Has(si, "channels")
          THEN {Put(si, "channels", [si["channels"] EXCEPT ![c] = TRUE]) :
                   c \in {x \in DOMAIN si["channels"] : ~si["channels"][x]}}
          ELSE {Put(si, "channels", [x \in {c} |-> TRUE]) : c \in ChannelNames})

\* the fragments that are f with one absent qualifying field added, all else equal
Additions(f) ==
    {Put(f, k, <<"y">>) : k \in ScoredTextKeys \ DOMAIN f}
    \cup (IF Has(f, "support_info")
          THEN {Put(f, "support_info", si) : si \in SupportAdditions(f["support_info"])}
          ELSE {Put(f, "support_info", si) : si \in SupportInfos})

\* C13: adding an absent qualifying field to a fragment never lowers its score.
C13_ScoreMonotone ==
    pc = "scored" => \A g \in Additions(fn_in) : calculate_company_score(g) >= fn_out

\* a fragment whose channels already earn the capped 10 points: one more true
\* channel leaves the score as it is, an inn raises it by 10
C13_Witness ==
    /\ pc = "scored"
    /\ ~Has(fn_in, "inn")
    /\ calculate_company_score(Put(fn_in, "inn", Inn111)) = fn_out + 10
    /\ HasChannels(fn_in)
    /\ TrueCount(ChannelsOf(fn_in)) = 4
    /\ \E g \in Additions(fn_in) :
          /\ TrueCount(ChannelsOf(g)) = 5
          /\ calculate_company_score(g) = fn_out

-----------------------------------------------------------------------------
(* C14 *)

\* the kept rows of a key that carry at least one value of a contact list
RowsWithContact(key, field) == {i \in RowsOfKey(key) : InfoOf(i)[field] # <<>>}

\* the value of the contact list seen first among the rows of the key
FirstSeen(key, field) == InfoOf(First(RowsWithContact(key, field)))[field][1]

PrimaryIsFirstSeen(e, primary, field) ==
    LET fragment == master_companies[e].v
    IN  Has(fragment, primary) =>
            /\ InSeq(fragment[primary], fragment[field])
            /\ fragment[primary] = FirstSeen(master_companies[e].k, field)

\* C14: in every fragment of the resolved map that has a primary_site, it is a
\* member of sites and is the site seen first among the rows of the fragment;
\* likewise primary_email and emails.
C14_PrimaryIsFirstSeen ==
    Resolving => \A e \in Entries :
        /\ PrimaryIsFirstSeen(e, "primary_site", "sites")
        /\ PrimaryIsFirstSeen(e, "primary_email", "emails")

-----------------------------------------------------------------------------
(* C15 *)

\* the extracted name of a row is empty or blank: no name column holds a value,
\* or the name taken holds nothing but whitespace
BlankName(source, row) ==
    LET info == extract_all_company_info(row, source)
    IN  ~Has(info, "name") \/ \A i \in 1..Len(info["name"]) : info["name"][i] \in Whitespace

\* a step of the loop that iterates a row of blank name leaves the map as it is
BlankRowLeavesMap ==
    (Len(rows_done') = Len(rows_done) + 1
       /\ BlankName(rows_done'[Len(rows_done')][1], rows_done'[Len(rows_done')][2]))
        => master_companies' = master_companies

\* C15: a row whose extracted name is empty or blank creates no key in the
\* resolved map and changes no field of any fragment in it.
C15_BlankNameExcluded == [][BlankRowLeavesMap]_vars

\* after a kept row, a row with a whitespace name and a row with no name column
\* were iterated, and the map holds the one fragment of the kept row
C15_Witness ==
    /\ Resolving
    /\ Len(rows_done) = 3
    /\ KeptRows = {1}
    /\ Has(rows_done[2][2], "name") /\ rows_done[2][2]["name"] = TextCell(Blank)
    /\ DOMAIN rows_done[3][2] = {"site"}
    /\ Len(master_companies) = 1
    /\ master_companies[1].v = Put(InfoOf(1), "normalized_name", master_companies[1].k)

-----------------------------------------------------------------------------
(* C16 *)

\* a record without its last_updated field
WithoutClock(record) == [key \in DOMAIN record \ {"last_updated"} |-> record[key]]

WithoutClocks(records) == [i \in 1..Len(records) |-> WithoutClock(records[i])]

\* C16: two runs of resolve, enrich and sort on the same tables in the same
\* order return the same records, last_updated apart, the order of sites and
\* emails and the primary_site and primary_email included.
C16_RunsAgree ==
    pc = "ran" => WithoutClocks(fn_out.first) = WithoutClocks(fn_out.second)

-----------------------------------------------------------------------------
(* C17 *)

Enhanced == pc = "enhanced"

Records == 1..Len(enhanced_companies)

ScoreOf(record) == record["data_quality_score"]

\* the place of a returned record in the enrichment order
EnrichmentIndex(record) == CHOOSE k \in Entries : master_companies[k].v = record

\* C17: the returned list is a permutation of the enriched records, in
\* non-increasing order of data_quality_score, records of equal score in the
\* order they were enriched.
C17_SortedStable ==
    Enhanced =>
        /\ Len(enhanced_companies) = Len(master_companies)
        /\ \A k \in Entries :
              Cardinality({i \in Records : enhanced_companies[i] = master_companies[k].v}) = 1
        /\ \A i, j \in Records :
              i < j =>
                  /\ ScoreOf(enhanced_companies[i]) >= ScoreOf(enhanced_companies[j])
                  /\ ScoreOf(enhanced_companies[i]) = ScoreOf(enhanced_companies[j])
                        => EnrichmentIndex(enhanced_companies[i])
                               < EnrichmentIndex(enhanced_companies[j])

\* three records enriched with scores 10, 20, 10: the second is returned first,
\* then the first and the third in their enrichment order
C17_Witness ==
    /\ Enhanced
    /\ Len(master_companies) = 3
    /\ ScoreOf(master_companies[1].v) = 10
    /\ ScoreOf(master_companies[2].v) = 20
    /\ ScoreOf(master_companies[3].v) = 10
    /\ enhanced_companies =
           <<master_companies[2].v, master_companies[1].v, master_companies[3].v>>

-----------------------------------------------------------------------------
(* C18 *)

\* "C" and k as four digits, for k below 10
IdOf(k) == <<"C", "0", "0", "0", Digits[k + 1]>>

\* C18: the k-th fragment in insertion order of the resolved map gets
\* company_id C000k whatever its score, and the company_id values returned are
\* pairwise distinct.
C18_IdsByInsertionOrder ==
    Enhanced =>
        /\ \A k \in Entries : master_companies[k].v["company_id"] = IdOf(k)
        /\ \A i, j \in Records :
              i # j => enhanced_companies[i]["company_id"] # enhanced_companies[j]["company_id"]

\* the record returned first is the one enriched third, and is C0003
C18_Witness ==
    /\ Enhanced
    /\ Len(master_companies) = 3
    /\ enhanced_companies[1] = master_companies[3].v
    /\ enhanced_companies[1]["company_id"] = <<"C", "0", "0", "0", "3">>
    /\ enhanced_companies[2]["company_id"] = <<"C", "0", "0", "0", "1">>
    /\ enhanced_companies[3]["company_id"] = <<"C", "0", "0", "0", "2">>

-----------------------------------------------------------------------------
(* C19 *)

DigitRuns(n) == UNION {[1..k -> {"1", "2"}] : k \in 0..n}

\* the numeric texts over the digits 1 and 2, each with its integer part:
\* whole numbers, and numbers with a decimal point
NumberTexts ==
    {<<w, w>> : w \in DigitRuns(MaxCellLen) \ {<<>>}}
    \cup ({<<w \o <<".">> \o f, w>> : w \in DigitRuns(MaxCellLen), f \in DigitRuns(MaxCellLen)}
              \ {<< <<".">>, <<>> >>})

IsNumberText(t) == \E p \in NumberTexts : p[1] = t

IntegerPart(t) == DecimalValue((CHOOSE p \in NumberTexts : p[1] = t)[2])

\* what the field of a count column is to hold for a cell
CountOfCell(cell) ==
    CASE cell.t = "float" -> IntV(cell.n \div 10)
      [] cell.t = "bool" -> IntV(IF cell.b THEN 1 ELSE 0)
      [] cell.t = "str" ->
            IF IsNumberText(Strip(cell.s)) THEN IntV(IntegerPart(Strip(cell.s)))
            ELSE StrV(Strip(cell.s))

\* the team-size column the extractor reads: the first one the row holds
TeamSizeColumn(row) ==
    IF Has(row, "support_team_size_min") THEN "support_team_size_min"
    ELSE IF Has(row, "support_team_size") THEN "support_team_size"
    ELSE "team_size"

FieldHoldsCount(row, col, field) ==
    IF Has(row, col)
    THEN /\ Has(fn_out, "support_info")
         /\ Has(fn_out["support_info"], field)
         /\ fn_out["support_info"][field] = CountOfCell(row[col])
    ELSE ~Has(SupportOf(fn_out), field)

\* C19: extraction returns for every row; a count column whose text is not a
\* number gives the trimmed text, a numeric one gives the integer, and a
\* missing one gives no field.
C19_CountOrRawText ==
    pc = "extracted" =>
        /\ fn_out["source"] = fn_in.source
        /\ FieldHoldsCount(fn_in.row, TeamSizeColumn(fn_in.row), "team_size")
        /\ FieldHoldsCount(fn_in.row, "support_vacancies_found", "support_vacancies")
        /\ FieldHoldsCount(fn_in.row, "vacancies_count", "total_vacancies")

\* the text " x " in the team-size column is kept as "x"
C19_Witness ==
    /\ pc = "extracted"
    /\ Has(fn_in.row, "support_team_size")
    /\ fn_in.row["support_team_size"] = TextCell(<<" ", "x", " ">>)
    /\ fn_out["support_info"]["team_size"] = StrV(<<"x">>)

-----------------------------------------------------------------------------
(* C20 *)

\* the counter fields of a record and the support_info fields they are read from
CounterFields ==
    {<<"support_team_size", "team_size">>,
     <<"support_vacancies", "support_vacancies">>,
     <<"total_vacancies", "total_vacancies">>}

\* C20: in every record returned, support_team_size, support_vacancies and
\* total_vacancies are integers, 0 when the fragment holds no number for them.
C20_CountersAreIntegers ==
    Enhanced =>
        \A i \in Records : \A p \in CounterFields :
            LET record == enhanced_companies[i]
                support_info == SupportOf(record)
            IN  /\ IsNumber(record[p[1]])
                /\ (~Has(support_info, p[2]) \/ ~IsNumber(support_info[p[2]]))
                      => record[p[1]] = IntV(0)

-----------------------------------------------------------------------------
(* C21 *)

\* C21: a call of merge_company_info leaves every field of both arguments as
\* it was, the channels and the sources of the existing fragment included.
C21_ArgumentsUntouched ==
    pc = "called" =>
        /\ fn_out.existing_after = fn_out.existing_before
        /\ fn_out.new_after = fn_out.new_before

-----------------------------------------------------------------------------
(* C22 *)

\* C22: every fragment of the resolved map holds the display name of the first
\* row kept for its key, and its key as normalized_name, however many rows were
\* merged into it since.
C22_NameSetOnce ==
    (Resolving \/ Enhanced) =>
        \A e \in Entries :
            /\ master_companies[e].v["name"]
                   = InfoOf(First(RowsOfKey(master_companies[e].k)))["name"]
            /\ master_companies[e].v["normalized_name"] = master_companies[e].k

\* rows named "A", "a" and "a." were folded into one fragment, which is named "A"
C22_Witness ==
    /\ Resolving
    /\ Len(rows_done) = 3
    /\ KeptRows = {1, 2, 3}
    /\ InfoOf(1)["name"] = <<"A">>
    /\ InfoOf(2)["name"] = <<"a">>
    /\ InfoOf(3)["name"] = <<"a", ".">>
    /\ Len(master_companies) = 1
    /\ Has(master_companies[1].v, "last_updated")
    /\ master_companies[1].v["name"] = <<"A">>
    /\ master_companies[1].v["normalized_name"] = <<"A">>

-----------------------------------------------------------------------------
(* C23 *)

\* a step leaves every integer of a stored fragment an integer at least as large
NumbersGrow ==
    \A e \in Entries : \A field \in NumericFields :
        LET before == SupportValue(master_companies[e].v, field)
            after == SupportValue(master_companies'[e].v, field)
        IN  IsNumber(before) => (IsNumber(after) /\ after.n >= before.n)

\* C23: once team_size, support_vacancies or total_vacancies of a fragment is
\* an integer n, it is an integer >= n after every later merge, whatever the
\* incoming values are.
C23_NumbersOnlyGrow == [][NumbersGrow]_vars

-----------------------------------------------------------------------------
(* C24 *)

\* C24: the same rows of one normalized name resolved in two orders give
\* fragments with the same set of sites, the same set of emails, the same
\* channel flags and the same team_size, support_vacancies and total_vacancies.
C24_OrderIrrelevant ==
    pc = "ordered" =>
        /\ Len(fn_out.first) = Len(fn_out.second)
        /\ \A e \in 1..Len(fn_out.first) :
              LET f == fn_out.first[e].v
                  g == Lookup(fn_out.second, fn_out.first[e].k)
              IN  /\ HasKey(fn_out.second, fn_out.first[e].k)
                  /\ SameContacts(f, g)
                  /\ SameChannels(f, g)
                  /\ SameNumbers(f, g)

-----------------------------------------------------------------------------
(* C25 *)

\* the candidate columns of a row that hold a text that is not blank
FilledNameColumns(row) ==
    {i \in 1..Len(name_candidates) :
        /\ Has(row, name_candidates[i])
        /\ \E j \in 1..Len(Str(row[name_candidates[i]])) :
              Str(row[name_candidates[i]])[j] \notin Whitespace}

\* the trimmed text of the first candidate column that is not blank
FirstFilledName(row) == Strip(Str(row[name_candidates[First(FilledNameColumns(row))]]))

\* C25: a row with a non-blank text in some candidate name column is kept, under
\* the name of the first such column in the order name, company_name, employer,
\* hh_employer_name, also when an earlier candidate column is blank.
C25_FirstFilledNameColumn ==
    Resolving =>
        \A i \in 1..Len(rows_done) :
            LET row == rows_done[i][2]
            IN  FilledNameColumns(row) # {} =>
                    /\ i \in KeptRows
                    /\ InfoOf(i)["name"] = FirstFilledName(row)
                    /\ HasKey(master_companies, normalize_company_name(FirstFilledName(row)))

-----------------------------------------------------------------------------
(* C26 *)

\* C26: no fragment of the resolved map and no record returned has a `source`
\* field.
C26_SourceNotPersisted ==
    /\ (Resolving \/ Enhanced) => \A e \in Entries : ~Has(master_companies[e].v, "source")
    /\ Enhanced => \A i \in Records : ~Has(enhanced_companies[i], "source")

-----------------------------------------------------------------------------
(* C27 *)

SupportTextFields == {"evidence", "evidence_url", "chat_vendor", "vacancy_details"}

MetadataTextKeys == {"parsing_method", "data_source", "page_title"}

MetadataOf(fragment) == Get(fragment, "metadata", EmptyDict)

\* the text d holds under key is the first non-empty one the rows hold, given
\* what each row holds in the same dict
FirstTextWins(d, key, rows, DictOfRow(_)) ==
    LET filled == {i \in rows : TruthyText(DictOfRow(i), key)}
    IN  IF filled = {} THEN ~TruthyText(d, key)
        ELSE Has(d, key) /\ d[key] = DictOfRow(First(filled))[key]

SupportOfRow(i) == SupportOf(InfoOf(i))

MetadataOfRow(i) == MetadataOf(InfoOf(i))

\* C27: every support text field and every metadata text key of a stored
\* fragment holds the first non-empty value among the rows of its key, in the
\* order they were merged: an empty earlier value does not block a later one,
\* and a later value never replaces it.
C27_FirstTextWins ==
    Resolving =>
        \A e \in Entries :
            LET rows == RowsOfKey(master_companies[e].k)
                f == master_companies[e].v
            IN  /\ \A field \in SupportTextFields :
                      FirstTextWins(SupportOf(f), field, rows, SupportOfRow)
                /\ \A key \in MetadataTextKeys :
                      FirstTextWins(MetadataOf(f), key, rows, MetadataOfRow)

-----------------------------------------------------------------------------
(* C28 *)

\* C28: every fragment of the resolved map with a site has a primary_site, and
\* every one with an email has a primary_email, from one row or from several.
C28_PrimaryWheneverCollected ==
    Resolving =>
        \A e \in Entries :
            LET f == master_companies[e].v
            IN  /\ f["sites"] # <<>> => Has(f, "primary_site")
                /\ f["emails"] # <<>> => Has(f, "primary_email")

-----------------------------------------------------------------------------
(* C29 *)

\* the step iterates row r of table source once more, all the rows of its key
\* so far being that same row
RepeatsOnlyRow(source, r) ==
    LET info == extract_all_company_info(r, source)
        rows == RowsOfKey(normalize_company_name(info["name"]))
    IN  /\ TruthyText(info, "name")
        /\ rows # {}
        /\ \A i \in rows : rows_done[i] = <<source, r>>

\* the fragment of the row's key is after the step what it was before it,
\* last_updated apart, and scores the same
SameFragmentAfter(source, r) ==
    LET key == normalize_company_name(extract_all_company_info(r, source)["name"])
        before == Lookup(master_companies, key)
        after == Lookup(master_companies', key)
    IN  /\ WithoutClock(after) = WithoutClock(before)
        /\ calculate_company_score(after) = calculate_company_score(before)

\* C29: a row that appears again in its table leaves the fragment of its key
\* as it is after the row appeared once, in every field but last_updated, and
\* with the same score.
C29_RepeatedRowIdempotent ==
    [][(Len(rows_done') = Len(rows_done) + 1
          /\ RepeatsOnlyRow(rows_done'[Len(rows_done')][1], rows_done'[Len(rows_done')][2]))
         => SameFragmentAfter(rows_done'[Len(rows_done')][1], rows_done'[Len(rows_done')][2])]_vars

-----------------------------------------------------------------------------
(* C30 *)

\* C30: the empty string is never a key of the resolved map.
C30_NoEmptyKey ==
    (Resolving \/ Enhanced) => \A e \in Entries : master_companies[e].k # <<>>

====
